---- MODULE Spec2Model ----
(***************************************************************************)
(* A model of the imessage bridge: the outgoing half (Send, the Sender     *)
(* loop processOutgoingMessages, sendiMessage, RunAppleScript,             *)
(* ClearMessages) of outgoing.go and the incoming half (the watcher, the   *)
(* ingestor checkForNewMessages, the dispatcher and the binding registry)  *)
(* of incoming.go.                                                         *)
(***************************************************************************)
EXTENDS Integers, Sequences, FiniteSets, TLC

(***************************************************************************)
(* Bounds of the model.                                                    *)
(***************************************************************************)
\* requests created by the producers in one behaviour
MaxSends == 2
\* capacity of the buffered channel m.outChan (set where the channel is made)
OutCap == 1
\* largest retry bound a direct caller passes to RunAppleScript
MaxRetry == 3
\* rows appended to the message table in one behaviour
MaxRows == 3
\* write notifications the watcher's event channel holds
MaxEvents == 2
\* capacity of the buffered channel m.inChan (set where the channel is made)
InCap == 1
\* capacity of a channel bound with IncomingChan (the caller makes it)
SinkCap == 1
\* bindings per collection while events are dispatched
DispBinds == 2
\* handler bindings when only the registry is exercised
RegFuncs == 4
\* channel bindings when only the registry is exercised
RegChans == 3
\* rows appended while the registry changes
DispRows == 2
\* bindings per collection when malformed patterns are registered
FanBinds == 2
\* bindings per collection while the registry changes during dispatch
MutBinds == 2

(***************************************************************************)
(* Program constants.                                                      *)
(***************************************************************************)
\* sendiMessage: m.RunAppleScript(msg.ID, arg, 3)
SendRetry == 3
\* ClearMessages: m.RunAppleScript("wipe", []string{arg}, 1)
ClearRetry == 1

\* getCurrentID: the cursor starts at MAX(rowid) of the table at startup
InitialID == 1

Producers == {"p1", "p2"}
Users == {"u1", "u2"}
Callers == {"sender"} \cup Users
UserRetries == (0 - 1) .. MaxRetry

\* msg.Text of an Outgoing: a body that is no path, or the path of a file
OutTexts == {"hi", "/f"}
\* os.Stat(msg.Text) succeeds
StatOK(text) == text = "/f"

NoMsg == [id |-> 0, text |-> "", file |-> FALSE, call |-> FALSE]

VARIABLES
  outChan,      \* m.outChan: the buffered requests, oldest first
  prod,         \* per producer: the request of its Send call in progress (NoMsg: none)
  nextId,       \* the id the next created request gets
  spc,          \* where processOutgoingMessages is
  smsg,         \* msg of the iteration in progress
  newMsg,       \* processOutgoingMessages' local newMsg
  clearMsgs,    \* m.config.ClearMsgs
  tickReady,    \* clearTicker holds a tick
  stopOut,      \* m.stopOutgoing is signalled
  ras,          \* per caller: its RunAppleScript call
  running,      \* external commands the Sender loop has started and not finished
  sleeps,       \* the sleeps of the Sender's iteration in progress, in order
  sentOrder,    \* ids in the order they entered outChan
  consumed,     \* ids in the order the Sender dequeued them
  callbacks,    \* the Responses handed to completion callbacks, in order
  sinceTick,    \* a request was dequeued since the last handled tick (or since startup)
  ticked        \* a tick has been handled

outVars == <<outChan, prod, nextId, spc, smsg, newMsg, clearMsgs, tickReady,
             stopOut, ras, running, sleeps, sentOrder, consumed, callbacks, sinceTick, ticked>>

VARIABLES
  stopIn,       \* m.stopChan is signalled
  rows,         \* the message table: the rows appended since startup, in rowid order
  wevents,      \* write notifications waiting in watcher.Events
  currentID,    \* m.currentID, the cursor
  mode,         \* "fsnotify" or "poll": which watcher processIncomingMessages started
  wpc,          \* where the watcher task (and the check cycle it runs) is
  elapsed,      \* last.Add(m.Interval.Duration).Before(time.Now())
  pollTick,     \* pollSQL's ticker holds a tick
  qres,         \* the rows the query of the cycle in progress has yet to return
  wmsg,         \* the Incoming that checkForNewMessages is handing to m.inChan
  handed,       \* the RowIDs sent into m.inChan, in order
  inChan,       \* m.inChan: the buffered events, oldest first
  dpc,          \* where the dispatcher loop of processIncomingMessages is
  dmsg,         \* the event being dispatched
  di,           \* mesgChans: index of the next binding of m.binds.Chans to evaluate
  fired,        \* the handler invocations spawned (go bind.Func(msg)), in order
  delivered,    \* the queue deliveries made (bind.Chan <- msg), in order
  binds,        \* m.binds: Funcs and Chans
  mut,          \* the registry call in progress (NoCall: none)
  mret,         \* what the last RemoveChan / RemoveCall returned
  sink          \* per bound channel: the events in its buffer

pipeVars == <<rows, wevents, currentID, mode, wpc, elapsed, pollTick, qres, wmsg, handed,
              inChan, dpc, dmsg, di, fired, delivered, binds, mut, mret, sink>>

inVars == <<stopIn, pipeVars>>

vars == <<outVars, inVars>>

(***************************************************************************)
(* RunAppleScript (outgoing.go 37-60), one frame per caller.               *)
(*   pc: idle (no call), cmd (cmd.Run in progress), sleep (the 750ms       *)
(*   sleep), ret (returned); errs holds the attempt numbers that failed;   *)
(*   ret is the returned slice (<<>> for nil); log is what happened.       *)
(***************************************************************************)
IdleFrame ==
  [pc |-> "idle", i |-> 0, retry |-> 0, errs |-> <<>>, ret |-> <<>>, log |-> <<>>]

\* for i := ...; i <= retry; ...  and the return nil after the loop
LoopHead(f) ==
  IF f.i <= f.retry
    THEN [f EXCEPT !.pc = "cmd"]
    ELSE [f EXCEPT !.pc = "ret", !.ret = <<>>]

\* the call: i := 1
CallFrame(retry) ==
  LoopHead([pc |-> "loop", i |-> 1, retry |-> retry, errs |-> <<>>,
            ret |-> <<>>, log |-> <<>>])

\* AfterCmd with a bare return on success: the recorded failures are returned
AfterCmd_BareReturn(f, ok) ==
  IF ok
    THEN [f EXCEPT !.pc = "ret", !.ret = f.errs, !.log = Append(f.log, "ok")]
    ELSE IF f.i >= f.retry
      THEN [f EXCEPT !.pc = "ret", !.errs = Append(f.errs, f.i),
                     !.ret = Append(f.errs, f.i), !.log = Append(f.log, "fail")]
      ELSE [f EXCEPT !.pc = "sleep", !.errs = Append(f.errs, f.i),
                     !.log = Append(f.log, "fail")]

\* AfterCmd with i > retry for i >= retry: the last failure sleeps and loops
AfterCmd_OffByOne(f, ok) ==
  IF ok
    THEN [f EXCEPT !.pc = "ret", !.ret = <<>>, !.log = Append(f.log, "ok")]
    ELSE IF f.i > f.retry
      THEN [f EXCEPT !.pc = "ret", !.errs = Append(f.errs, f.i),
                     !.ret = Append(f.errs, f.i), !.log = Append(f.log, "fail")]
      ELSE [f EXCEPT !.pc = "sleep", !.errs = Append(f.errs, f.i),
                     !.log = Append(f.log, "fail")]

\* the body of the loop once cmd.Run() has returned
AfterCmd(f, ok) ==
  IF ok
    THEN [f EXCEPT !.pc = "ret", !.ret = <<>>, !.log = Append(f.log, "ok")]
    ELSE IF f.i >= f.retry
      THEN [f EXCEPT !.pc = "ret", !.errs = Append(f.errs, f.i),
                     !.ret = Append(f.errs, f.i), !.log = Append(f.log, "fail")]
      ELSE [f EXCEPT !.pc = "sleep", !.errs = Append(f.errs, f.i),
                     !.log = Append(f.log, "fail")]

\* time.Sleep(750ms) is over; i++
AfterSleep(f) ==
  LoopHead([f EXCEPT !.i = f.i + 1, !.log = Append(f.log, "sleep")])

Started(f) == IF f.pc = "cmd" THEN 1 ELSE 0

(***************************************************************************)
(* A direct caller of the exported RunAppleScript.                         *)
(***************************************************************************)
UserCall(c, retry) ==
  /\ ras[c].pc \in {"idle", "ret"}
  /\ ras' = [ras EXCEPT ![c] = CallFrame(retry)]
  /\ UNCHANGED <<outChan, prod, nextId, spc, smsg, newMsg, clearMsgs, tickReady,
                 stopOut, running, sleeps, sentOrder, consumed, callbacks, sinceTick, ticked,
                 inVars>>

CmdRun(c, ok) ==
  /\ ras[c].pc = "cmd"
  /\ ras' = [ras EXCEPT ![c] = AfterCmd(ras[c], ok)]
  /\ running' = IF c = "sender" THEN running - 1 ELSE running
  /\ UNCHANGED <<outChan, prod, nextId, spc, smsg, newMsg, clearMsgs, tickReady,
                 stopOut, sleeps, sentOrder, consumed, callbacks, sinceTick, ticked,
                 inVars>>

RetrySleep(c) ==
  /\ ras[c].pc = "sleep"
  /\ ras' = [ras EXCEPT ![c] = AfterSleep(ras[c])]
  /\ running' = IF c = "sender" THEN running + Started(AfterSleep(ras[c])) ELSE running
  /\ UNCHANGED <<outChan, prod, nextId, spc, smsg, newMsg, clearMsgs, tickReady,
                 stopOut, sleeps, sentOrder, consumed, callbacks, sinceTick, ticked,
                 inVars>>

(***************************************************************************)
(* Send (outgoing.go 32-34): m.outChan <- msg.                             *)
(***************************************************************************)
SendCall(p, text, file, call) ==
  /\ prod[p] = NoMsg
  /\ nextId <= MaxSends
  /\ prod' = [prod EXCEPT ![p] = [id |-> nextId, text |-> text, file |-> file,
                                  call |-> call]]
  /\ nextId' = nextId + 1
  /\ UNCHANGED <<outChan, spc, smsg, newMsg, clearMsgs, tickReady, stopOut, ras,
                 running, sleeps, sentOrder, consumed, callbacks, sinceTick, ticked,
                 inVars>>

\* the channel send can complete: the buffer has room
CanSend == Len(outChan) < OutCap

SendReturn(p) ==
  /\ prod[p] # NoMsg
  /\ CanSend
  /\ outChan' = Append(outChan, prod[p])
  /\ sentOrder' = Append(sentOrder, prod[p].id)
  /\ prod' = [prod EXCEPT ![p] = NoMsg]
  /\ UNCHANGED <<nextId, spc, smsg, newMsg, clearMsgs, tickReady, stopOut, ras,
                 running, sleeps, consumed, callbacks, sinceTick, ticked,
                 inVars>>

(***************************************************************************)
(* processOutgoingMessages (outgoing.go 86-110) and sendiMessage (112-128).*)
(***************************************************************************)
\* SenderReady of a loop that does not wait for the send it started
SenderReady_Concurrent == spc \in {"select", "send"}

\* the loop is at its select statement
SenderReady == spc = "select"

\* sendiMessage builds the file variant
FileVariant(msg) == StatOK(msg.text) /\ msg.file

\* ShouldClear without the newMsg flag
ShouldClear_NoFlag == clearMsgs

\* if m.config.ClearMsgs && newMsg
ShouldClear == clearMsgs /\ newMsg

\* &Response{ID: msg.ID, To: msg.To, Text: msg.Text, Errs: err}
Response(msg, errs) == [id |-> msg.id, text |-> msg.text, errs |-> errs]

\* WithCallback of a loop that spawns the callback for every request
WithCallback_Always(msg, errs) == Append(callbacks, Response(msg, errs))

\* go msg.Call(&Response{...}) when msg.Call != nil
WithCallback(msg, errs) ==
  IF msg.call THEN Append(callbacks, Response(msg, errs))
  ELSE callbacks

\* case msg := <-m.outChan: newMsg = true, and sendiMessage up to its RunAppleScript call
RecvMsg ==
  /\ SenderReady
  /\ outChan # <<>>
  /\ smsg' = Head(outChan)
  /\ outChan' = Tail(outChan)
  /\ consumed' = Append(consumed, Head(outChan).id)
  /\ newMsg' = TRUE
  /\ sinceTick' = TRUE
  /\ ras' = [ras EXCEPT !["sender"] = CallFrame(SendRetry)]
  /\ running' = running + Started(CallFrame(SendRetry))
  /\ sleeps' = <<>>
  /\ spc' = "send"
  /\ UNCHANGED <<prod, nextId, clearMsgs, tickReady, stopOut, sentOrder, callbacks,
                 ticked,
                 inVars>>

\* TextDelay keyed on the variant that was built, not on msg.File
TextDelay_ByVariant(msg, errs) == errs = <<>> /\ ~FileVariant(msg)

\* sendiMessage sleeps 300ms: RunAppleScript returned nil and !msg.File
TextDelay(msg, errs) == errs = <<>> /\ ~msg.file

\* RunAppleScript has returned into sendiMessage
SendiMessageReturn ==
  /\ spc = "send"
  /\ ras["sender"].pc = "ret"
  /\ IF TextDelay(smsg, ras["sender"].ret)
       THEN /\ spc' = "textSleep"
            /\ UNCHANGED callbacks
       ELSE /\ spc' = "loopSleep"
            /\ callbacks' = WithCallback(smsg, ras["sender"].ret)
  /\ UNCHANGED <<outChan, prod, nextId, smsg, newMsg, clearMsgs, tickReady, stopOut,
                 ras, running, sleeps, sentOrder, consumed, sinceTick, ticked,
                 inVars>>

\* sendiMessage's time.Sleep(300ms) is over; it returns nil
TextSleep ==
  /\ spc = "textSleep"
  /\ sleeps' = Append(sleeps, "text300")
  /\ callbacks' = WithCallback(smsg, <<>>)
  /\ spc' = "loopSleep"
  /\ UNCHANGED <<outChan, prod, nextId, smsg, newMsg, clearMsgs, tickReady, stopOut,
                 ras, running, sentOrder, consumed, sinceTick, ticked,
                 inVars>>

\* the loop's time.Sleep(300ms) is over
LoopSleep ==
  /\ spc = "loopSleep"
  /\ sleeps' = Append(sleeps, "loop300")
  /\ spc' = "select"
  /\ smsg' = NoMsg
  /\ UNCHANGED <<outChan, prod, nextId, newMsg, clearMsgs, tickReady, stopOut,
                 ras, running, sentOrder, consumed, callbacks, sinceTick, ticked,
                 inVars>>

\* the 2-minute ticker fires; its channel holds one tick
TickFires ==
  /\ ~tickReady
  /\ spc # "done"
  /\ tickReady' = TRUE
  /\ UNCHANGED <<outChan, prod, nextId, spc, smsg, newMsg, clearMsgs, stopOut, ras,
                 running, sleeps, sentOrder, consumed, callbacks, sinceTick, ticked,
                 inVars>>

\* case <-clearTicker
Tick ==
  /\ SenderReady
  /\ tickReady
  /\ tickReady' = FALSE
  /\ sinceTick' = FALSE
  /\ ticked' = TRUE
  /\ IF ShouldClear
       THEN /\ newMsg' = FALSE
            /\ ras' = [ras EXCEPT !["sender"] = CallFrame(ClearRetry)]
            /\ running' = running + Started(CallFrame(ClearRetry))
            /\ spc' = "clear"
       ELSE UNCHANGED <<newMsg, ras, running, spc>>
  /\ UNCHANGED <<outChan, prod, nextId, smsg, clearMsgs, stopOut, sleeps, sentOrder,
                 consumed, callbacks, inVars>>

\* ClearMessages (outgoing.go 65-83): RunAppleScript has returned
ClearMessagesReturn ==
  /\ spc = "clear"
  /\ ras["sender"].pc = "ret"
  /\ spc' = IF ras["sender"].ret = <<>> THEN "clearSleep75" ELSE "clearSleep1s"
  /\ UNCHANGED <<outChan, prod, nextId, smsg, newMsg, clearMsgs, tickReady, stopOut,
                 ras, running, sleeps, sentOrder, consumed, callbacks, sinceTick, ticked,
                 inVars>>

\* ClearMessages' time.Sleep(75ms), then the loop's time.Sleep(time.Second)
ClearSleep ==
  /\ spc \in {"clearSleep75", "clearSleep1s"}
  /\ spc' = IF spc = "clearSleep75" THEN "clearSleep1s" ELSE "select"
  /\ UNCHANGED <<outChan, prod, nextId, smsg, newMsg, clearMsgs, tickReady, stopOut,
                 ras, running, sleeps, sentOrder, consumed, callbacks, sinceTick, ticked,
                 inVars>>

\* case <-m.stopOutgoing: return
SenderStop ==
  /\ SenderReady
  /\ stopOut
  /\ spc' = "done"
  /\ UNCHANGED <<outChan, prod, nextId, smsg, newMsg, clearMsgs, tickReady, stopOut,
                 ras, running, sleeps, sentOrder, consumed, callbacks, sinceTick, ticked,
                 inVars>>

\* the shutdown signal is raised
Stop ==
  /\ ~stopOut
  /\ stopOut' = TRUE
  /\ stopIn' = TRUE
  /\ UNCHANGED <<outChan, prod, nextId, spc, smsg, newMsg, clearMsgs, tickReady, ras,
                 running, sleeps, sentOrder, consumed, callbacks, sinceTick, ticked,
                 pipeVars>>

(***************************************************************************)
(* Texts and patterns are sequences of characters.                         *)
(***************************************************************************)
TxtPing == <<"p", "i", "n", "g">>
TxtPingx == <<"p", "i", "n", "g", "x">>
TxtPadded == <<" ", "p", "i", "n", "g", " ">>
PatAny == <<".", "*">>
PatPing == <<"^", "p", "i", "n", "g", "$">>
PatX == <<"x">>
PatBad == <<"(">>
PatFoo == <<"f", "o", "o">>
PatBar == <<"b", "a", "r">>

\* strings.TrimSpace
RECURSIVE TrimLeft(_)
TrimLeft(t) == IF t # <<>> /\ Head(t) = " " THEN TrimLeft(Tail(t)) ELSE t

RECURSIVE TrimRight(_)
TrimRight(t) ==
  IF t # <<>> /\ t[Len(t)] = " " THEN TrimRight(SubSeq(t, 1, Len(t) - 1)) ELSE t

TrimSpace(t) == TrimRight(TrimLeft(t))

(***************************************************************************)
(* regexp.MatchString (incoming.go 219, 231) for patterns made of literal  *)
(* characters, ".", a postfix "*", a leading "^" and a trailing "$": the   *)
(* pattern matches anywhere in the text unless anchored; a pattern that    *)
(* does not compile (an unclosed "(", a "*" with nothing to repeat) gives  *)
(* an error.                                                               *)
(***************************************************************************)
RECURSIVE Unbalanced(_, _)
Unbalanced(re, depth) ==
  IF re = <<>> THEN depth # 0
  ELSE IF Head(re) = "(" THEN Unbalanced(Tail(re), depth + 1)
  ELSE IF Head(re) = ")" THEN depth = 0 \/ Unbalanced(Tail(re), depth - 1)
  ELSE Unbalanced(Tail(re), depth)

CompileError(re) ==
  \/ Unbalanced(re, 0)
  \/ re # <<>> /\ Head(re) = "*"
  \/ Len(re) >= 2 /\ re[1] = "^" /\ re[2] = "*"

CharMatches(c, text) == text # <<>> /\ (c = "." \/ c = Head(text))

RECURSIVE MatchHere(_, _)
MatchHere(re, text) ==
  IF re = <<>> THEN TRUE
  ELSE IF Len(re) >= 2 /\ re[2] = "*"
    THEN \E k \in 0 .. Len(text) :
           /\ \A j \in 1 .. k : CharMatches(re[1], <<text[j]>>)
           /\ MatchHere(SubSeq(re, 3, Len(re)), SubSeq(text, k + 1, Len(text)))
  ELSE IF re = <<"$">> THEN text = <<>>
  ELSE CharMatches(re[1], text) /\ MatchHere(Tail(re), Tail(text))

MatchAnywhere(re, text) ==
  IF re # <<>> /\ Head(re) = "^"
    THEN MatchHere(Tail(re), text)
    ELSE \E k \in 0 .. Len(text) : MatchHere(re, SubSeq(text, k + 1, Len(text)))

MatchString(pattern, text) ==
  IF CompileError(pattern)
    THEN [matched |-> FALSE, err |-> TRUE]
    ELSE [matched |-> MatchAnywhere(pattern, text), err |-> FALSE]

\* BindMatches that looks at the error only
BindMatches_IgnoreText(bind, msg) == ~MatchString(bind.Match, msg.Text).err

\* BindMatches that takes a pattern fault for a match
BindMatches_ErrIsMatch(bind, msg) ==
  LET r == MatchString(bind.Match, msg.Text) IN r.err \/ r.matched

\* if err = m.checkErr(err, bind.Match); err == nil && matched
BindMatches(bind, msg) ==
  LET r == MatchString(bind.Match, msg.Text) IN ~r.err /\ r.matched

(***************************************************************************)
(* The message table and the range query of checkForNewMessages            *)
(* (incoming.go 168-172): the rows past the cursor that are not from me,   *)
(* in ascending order of date; rows of equal date come in either order.    *)
(***************************************************************************)
\* message.date is a timestamp: it is what the sender's clock said, and it need
\* not grow with the rowid; the rows of one behaviour have different dates
Dates == 1 .. MaxRows
Handlers == {"h1", "h2"}
Sinks == {"q1", "q2"}

NoEvent == [RowID |-> 0, Text |-> <<>>]
NoCall == [op |-> "", Match |-> <<>>, to |-> ""]

Selected(cur) == {k \in 1 .. Len(rows) : rows[k].id > cur /\ ~rows[k].fromMe}

\* ORDER BY message.date ASC
QueryResults(cur) ==
  LET S == Selected(cur)
      n == Cardinality(S) IN
  {[j \in 1 .. n |-> rows[o[j]]] :
     o \in {f \in [1 .. n -> S] :
              /\ \A a, b \in 1 .. n : f[a] = f[b] => a = b
              /\ \A a, b \in 1 .. n : a < b => rows[f[a]].date <= rows[f[b]].date}}

\* a row is appended to the table, with the next rowid; the file is written
AppendRow(date, fromMe, text, max) ==
  /\ Len(rows) < max
  /\ \A k \in 1 .. Len(rows) : rows[k].date # date
  /\ rows' = Append(rows, [id |-> InitialID + Len(rows) + 1, date |-> date,
                           fromMe |-> fromMe, text |-> text])
  /\ wevents' = IF mode = "fsnotify" /\ wpc # "done" /\ wevents < MaxEvents
                  THEN wevents + 1 ELSE wevents
  /\ UNCHANGED <<stopIn, currentID, mode, wpc, elapsed, pollTick, qres, wmsg, handed,
                 inChan, dpc, dmsg, di, fired, delivered, binds, mut, mret, sink,
                 outVars>>

(***************************************************************************)
(* The watcher: fsnotifySQL (incoming.go 119-149) or pollSQL (151-161),    *)
(* and the check cycle checkForNewMessages (163-193) it runs.              *)
(***************************************************************************)
\* checkForNewMessages up to its loop: getDB, and the query bound to the cursor
BeginCheck(dbOK) ==
  IF dbOK
    THEN /\ qres' \in QueryResults(currentID)
         /\ wpc' = "step"
    ELSE UNCHANGED <<qres, wpc>>

\* time passes: the debounce interval since the last check is over
IntervalPasses ==
  /\ mode = "fsnotify"
  /\ ~elapsed
  /\ wpc # "done"
  /\ elapsed' = TRUE
  /\ UNCHANGED <<stopIn, rows, wevents, currentID, mode, wpc, pollTick, qres, wmsg,
                 handed, inChan, dpc, dmsg, di, fired, delivered, binds, mut, mret,
                 sink, outVars>>

\* case event, ok := <-watcher.Events (a write event)
WatchEvent(dbOK) ==
  /\ mode = "fsnotify"
  /\ wpc = "wait"
  /\ wevents > 0
  /\ wevents' = wevents - 1
  /\ IF elapsed
       THEN elapsed' = FALSE /\ BeginCheck(dbOK)
       ELSE UNCHANGED <<elapsed, qres, wpc>>
  /\ UNCHANGED <<stopIn, rows, currentID, mode, pollTick, wmsg, handed, inChan, dpc,
                 dmsg, di, fired, delivered, binds, mut, mret, sink, outVars>>

\* watcher.Events or watcher.Errors is closed: m.Stop() and return
WatcherFails ==
  /\ mode = "fsnotify"
  /\ wpc = "wait"
  /\ wpc' = "done"
  /\ stopIn' = TRUE
  /\ stopOut' = TRUE
  /\ UNCHANGED <<rows, wevents, currentID, mode, elapsed, pollTick, qres, wmsg, handed,
                 inChan, dpc, dmsg, di, fired, delivered, binds, mut, mret, sink>>
  /\ UNCHANGED <<outChan, prod, nextId, spc, smsg, newMsg, clearMsgs, tickReady, ras,
                 running, sleeps, sentOrder, consumed, callbacks, sinceTick, ticked>>

\* pollSQL's ticker fires; its channel holds one tick
PollTickFires ==
  /\ mode = "poll"
  /\ ~pollTick
  /\ wpc # "done"
  /\ pollTick' = TRUE
  /\ UNCHANGED <<stopIn, rows, wevents, currentID, mode, wpc, elapsed, qres, wmsg,
                 handed, inChan, dpc, dmsg, di, fired, delivered, binds, mut, mret,
                 sink, outVars>>

\* case <-ticker.C
PollTick(dbOK) ==
  /\ mode = "poll"
  /\ wpc = "wait"
  /\ pollTick
  /\ pollTick' = FALSE
  /\ BeginCheck(dbOK)
  /\ UNCHANGED <<stopIn, rows, wevents, currentID, mode, elapsed, wmsg, handed, inChan,
                 dpc, dmsg, di, fired, delivered, binds, mut, mret, sink, outVars>>

\* case <-m.stopChan: return
WatcherStop ==
  /\ wpc = "wait"
  /\ stopIn
  /\ wpc' = "done"
  /\ UNCHANGED <<stopIn, rows, wevents, currentID, mode, elapsed, pollTick, qres, wmsg,
                 handed, inChan, dpc, dmsg, di, fired, delivered, binds, mut, mret,
                 sink, outVars>>

\* the cursor after reading a row
Advance(cur, row) == row.id

\* one turn of the loop of checkForNewMessages: query.Step(), and for a row the
\* cursor and the Incoming that is about to be sent to m.inChan
QueryStep(err) ==
  /\ wpc = "step"
  /\ IF err \/ qres = <<>>
       THEN /\ wpc' = "wait"
            /\ qres' = <<>>
            /\ UNCHANGED <<currentID, wmsg>>
       ELSE /\ currentID' = Advance(currentID, Head(qres))
            /\ wmsg' = [RowID |-> Head(qres).id, Text |-> TrimSpace(Head(qres).text)]
            /\ qres' = Tail(qres)
            /\ wpc' = "hand"
  /\ UNCHANGED <<stopIn, rows, wevents, mode, elapsed, pollTick, handed, inChan, dpc,
                 dmsg, di, fired, delivered, binds, mut, mret, sink, outVars>>

\* m.inChan <- msg
HandOff ==
  /\ wpc = "hand"
  /\ Len(inChan) < InCap
  /\ inChan' = Append(inChan, wmsg)
  /\ handed' = Append(handed, wmsg.RowID)
  /\ wmsg' = NoEvent
  /\ wpc' = "step"
  /\ UNCHANGED <<stopIn, rows, wevents, currentID, mode, elapsed, pollTick, qres, dpc,
                 dmsg, di, fired, delivered, binds, mut, mret, sink, outVars>>

(***************************************************************************)
(* The dispatcher loop of processIncomingMessages (incoming.go 96-106),    *)
(* callBacks (215-225) and mesgChans (227-237).  callBacks holds the read  *)
(* lock of m.binds from its start to its end and never blocks; mesgChans   *)
(* takes the read lock again and holds it while dpc = "chans".             *)
(***************************************************************************)
\* DispatcherReady of a loop that does not wait for mesgChans to return
DispatcherReady_Concurrent == dpc \in {"select", "chans"}

\* the loop is at its select statement
DispatcherReady == dpc = "select"

\* FiredBy that walks m.binds.Funcs from its end
RECURSIVE FiredBy_Reversed(_, _)
FiredBy_Reversed(funcs, msg) ==
  IF funcs = <<>> THEN <<>>
  ELSE FiredBy_Reversed(Tail(funcs), msg)
       \o (IF BindMatches(Head(funcs), msg)
             THEN <<[fn |-> Head(funcs).to, ev |-> msg.RowID]>> ELSE <<>>)

\* the go bind.Func(msg) that callBacks spawns, in the order of m.binds.Funcs
RECURSIVE FiredBy(_, _)
FiredBy(funcs, msg) ==
  IF funcs = <<>> THEN <<>>
  ELSE (IF BindMatches(Head(funcs), msg)
          THEN <<[fn |-> Head(funcs).to, ev |-> msg.RowID]>> ELSE <<>>)
       \o FiredBy(Tail(funcs), msg)

\* the first binding of chans at index from or later that matches msg (0: none)
NextMatch(chans, from, msg) ==
  LET M == {j \in from .. Len(chans) : BindMatches(chans[j], msg)} IN
  IF M = {} THEN 0 ELSE CHOOSE j \in M : \A k \in M : j <= k

\* case msg := <-m.inChan, and m.callBacks(msg)
DispRecv ==
  /\ DispatcherReady
  /\ inChan # <<>>
  /\ dmsg' = Head(inChan)
  /\ inChan' = Tail(inChan)
  /\ fired' = fired \o FiredBy(binds.Funcs, Head(inChan))
  /\ dpc' = "between"
  /\ UNCHANGED <<stopIn, rows, wevents, currentID, mode, wpc, elapsed, pollTick, qres,
                 wmsg, handed, di, delivered, binds, mut, mret, sink, outVars>>

\* m.mesgChans(msg): m.binds.RLock()
MesgChansLock ==
  /\ dpc = "between"
  /\ dpc' = "chans"
  /\ di' = 1
  /\ UNCHANGED <<stopIn, rows, wevents, currentID, mode, wpc, elapsed, pollTick, qres,
                 wmsg, handed, inChan, dmsg, fired, delivered, binds, mut, mret, sink,
                 outVars>>

\* the loop of mesgChans up to and including its next bind.Chan <- msg, which
\* needs room in the channel; with no matching binding left, RUnlock and return
MesgChansStep ==
  /\ dpc = "chans"
  /\ LET j == NextMatch(binds.Chans, di, dmsg) IN
     IF j = 0
       THEN /\ dpc' = "select"
            /\ di' = 0
            /\ dmsg' = NoEvent
            /\ UNCHANGED <<sink, delivered>>
       ELSE /\ Len(sink[binds.Chans[j].to]) < SinkCap
            /\ sink' = [sink EXCEPT ![binds.Chans[j].to] = Append(@, dmsg.RowID)]
            /\ delivered' = Append(delivered, [to |-> binds.Chans[j].to, ev |-> dmsg.RowID])
            /\ di' = j + 1
            /\ UNCHANGED <<dpc, dmsg>>
  /\ UNCHANGED <<stopIn, rows, wevents, currentID, mode, wpc, elapsed, pollTick, qres,
                 wmsg, handed, inChan, fired, binds, mut, mret, outVars>>

\* case <-m.stopChan: return
DispStop ==
  /\ DispatcherReady
  /\ stopIn
  /\ dpc' = "done"
  /\ UNCHANGED <<stopIn, rows, wevents, currentID, mode, wpc, elapsed, pollTick, qres,
                 wmsg, handed, inChan, dmsg, di, fired, delivered, binds, mut, mret,
                 sink, outVars>>

\* the consumer of a bound channel receives from it
ConsumerRead(q) ==
  /\ sink[q] # <<>>
  /\ sink' = [sink EXCEPT ![q] = Tail(@)]
  /\ UNCHANGED <<stopIn, rows, wevents, currentID, mode, wpc, elapsed, pollTick, qres,
                 wmsg, handed, inChan, dpc, dmsg, di, fired, delivered, binds, mut,
                 mret, outVars>>

(***************************************************************************)
(* The registry: IncomingChan, IncomingCall, RemoveChan, RemoveCall        *)
(* (incoming.go 49-92).  A call is in progress from its start until it has *)
(* taken the write lock, changed m.binds and released the lock.            *)
(***************************************************************************)
\* the loop of RemoveChan / RemoveCall: i counts from 0 to rlen-1, j = i - removed
\* is the 0-based index examined, and a match is cut out with
\* append(list[:j], list[j+1:]...)
RECURSIVE RemoveLoop(_, _, _, _, _)
RemoveLoop(list, match, i, rlen, removed) ==
  IF ~(i < rlen) THEN [list |-> list, removed |-> removed]
  ELSE LET j == i - removed IN
       IF list[j + 1].Match = match
         THEN RemoveLoop(SubSeq(list, 1, j) \o SubSeq(list, j + 2, Len(list)),
                         match, i + 1, rlen, removed + 1)
         ELSE RemoveLoop(list, match, i + 1, rlen, removed)

\* the loop with the index not corrected by the removals so far: the binding
\* that follows a removed one is skipped
RECURSIVE RemoveSkipping(_, _, _, _)
RemoveSkipping(list, match, i, removed) ==
  IF ~(i < Len(list)) THEN [list |-> list, removed |-> removed]
  ELSE IF list[i + 1].Match = match
    THEN RemoveSkipping(SubSeq(list, 1, i) \o SubSeq(list, i + 2, Len(list)),
                        match, i + 1, removed + 1)
    ELSE RemoveSkipping(list, match, i + 1, removed)

RemoveMatching_Skip(list, match) == RemoveSkipping(list, match, 0, 0)

RemoveMatching(list, match) == RemoveLoop(list, match, 0, Len(list), 0)

\* a registry method is called
MutCall(op, match, to, max) ==
  /\ mut = NoCall
  /\ op = "IncomingCall" => Len(binds.Funcs) < max /\ to \in Handlers
  /\ op = "IncomingChan" => Len(binds.Chans) < max /\ to \in Sinks
  /\ op \in {"RemoveCall", "RemoveChan"} => to = ""
  /\ mut' = [op |-> op, Match |-> match, to |-> to]
  /\ UNCHANGED <<stopIn, rows, wevents, currentID, mode, wpc, elapsed, pollTick, qres,
                 wmsg, handed, inChan, dpc, dmsg, di, fired, delivered, binds, mret,
                 sink, outVars>>

\* m.binds.Lock() succeeds: no reader holds the lock
CanLock == dpc # "chans"

\* the call takes the lock, does its work, unlocks and returns
MutReturn ==
  /\ mut # NoCall
  /\ CanLock
  /\ IF mut.op = "IncomingCall"
       THEN /\ binds' = [binds EXCEPT !.Funcs = Append(@, [Match |-> mut.Match, to |-> mut.to])]
            /\ UNCHANGED mret
     ELSE IF mut.op = "IncomingChan"
       THEN /\ binds' = [binds EXCEPT !.Chans = Append(@, [Match |-> mut.Match, to |-> mut.to])]
            /\ UNCHANGED mret
     ELSE IF mut.op = "RemoveCall"
       THEN /\ binds' = [binds EXCEPT !.Funcs = RemoveMatching(@, mut.Match).list]
            /\ mret' = RemoveMatching(binds.Funcs, mut.Match).removed
     ELSE /\ binds' = [binds EXCEPT !.Chans = RemoveMatching(@, mut.Match).list]
          /\ mret' = RemoveMatching(binds.Chans, mut.Match).removed
  /\ mut' = NoCall
  /\ UNCHANGED <<stopIn, rows, wevents, currentID, mode, wpc, elapsed, pollTick, qres,
                 wmsg, handed, inChan, dpc, dmsg, di, fired, delivered, sink, outVars>>

(***************************************************************************)
(* Specifications.                                                         *)
(***************************************************************************)
InitOut ==
  /\ outChan = <<>>
  /\ prod = [p \in Producers |-> NoMsg]
  /\ nextId = 1
  /\ spc = "select"
  /\ smsg = NoMsg
  /\ newMsg = TRUE
  /\ clearMsgs \in BOOLEAN
  /\ tickReady = FALSE
  /\ stopOut = FALSE
  /\ ras = [c \in Callers |-> IdleFrame]
  /\ running = 0
  /\ sleeps = <<>>
  /\ sentOrder = <<>>
  /\ consumed = <<>>
  /\ callbacks = <<>>
  /\ sinceTick = FALSE
  /\ ticked = FALSE

InitIn ==
  /\ stopIn = FALSE
  /\ rows = <<>>
  /\ wevents = 0
  /\ currentID = InitialID
  /\ wpc = "wait"
  /\ elapsed = TRUE
  /\ pollTick = FALSE
  /\ qres = <<>>
  /\ wmsg = NoEvent
  /\ handed = <<>>
  /\ inChan = <<>>
  /\ dpc = "select"
  /\ dmsg = NoEvent
  /\ di = 0
  /\ fired = <<>>
  /\ delivered = <<>>
  /\ mut = NoCall
  /\ mret = 0
  /\ sink = [q \in Sinks |-> <<>>]

\* no binding is registered
InitEmpty ==
  /\ InitOut
  /\ InitIn
  /\ mode = "fsnotify"
  /\ binds = [Funcs |-> <<>>, Chans |-> <<>>]

\* a handler and a channel are bound to every message
InitBound ==
  /\ InitOut
  /\ InitIn
  /\ mode \in {"fsnotify", "poll"}
  /\ binds = [Funcs |-> <<[Match |-> PatAny, to |-> "h1"]>>,
              Chans |-> <<[Match |-> PatAny, to |-> "q1"]>>]

\* the Sender loop and its producers
NextOut ==
  \/ \E p \in Producers, t \in OutTexts, f \in BOOLEAN, c \in BOOLEAN : SendCall(p, t, f, c)
  \/ \E p \in Producers : SendReturn(p)
  \/ RecvMsg
  \/ \E ok \in BOOLEAN : CmdRun("sender", ok)
  \/ RetrySleep("sender")
  \/ SendiMessageReturn
  \/ TextSleep
  \/ LoopSleep
  \/ TickFires
  \/ Tick
  \/ ClearMessagesReturn
  \/ ClearSleep
  \/ SenderStop
  \/ Stop

SpecOut == InitEmpty /\ [][NextOut]_vars

\* direct callers of RunAppleScript
NextRAS ==
  \/ \E c \in Users, n \in UserRetries : UserCall(c, n)
  \/ \E c \in Users, ok \in BOOLEAN : CmdRun(c, ok)
  \/ \E c \in Users : RetrySleep(c)

SpecRAS == InitEmpty /\ [][NextRAS]_vars

\* the watcher, the check cycle, the dispatcher and the consumers
Pipeline ==
  \/ IntervalPasses
  \/ \E ok \in BOOLEAN : WatchEvent(ok)
  \/ PollTickFires
  \/ \E ok \in BOOLEAN : PollTick(ok)
  \/ \E err \in BOOLEAN : QueryStep(err)
  \/ HandOff
  \/ DispRecv
  \/ MesgChansLock
  \/ MesgChansStep
  \/ \E q \in Sinks : ConsumerRead(q)

\* shutdown of the three loops
Shutdown ==
  \/ Stop
  \/ WatcherFails
  \/ WatcherStop
  \/ DispStop
  \/ SenderStop

\* ingestion: rows of any date, from me or not, with fixed bindings
NextIngest ==
  \/ \E d \in Dates, f \in BOOLEAN : AppendRow(d, f, TxtPing, MaxRows)
  \/ Pipeline
  \/ Shutdown

SpecIngest == InitBound /\ [][NextIngest]_vars

\* the registry alone
NextReg ==
  \/ \E m \in {PatFoo, PatBar}, h \in Handlers :
       (m = PatFoo \/ h = "h1") /\ MutCall("IncomingCall", m, h, RegFuncs)
  \/ \E m \in {PatFoo, PatBar}, q \in Sinks :
       (m = PatFoo \/ q = "q1") /\ MutCall("IncomingChan", m, q, RegChans)
  \/ \E m \in {PatFoo, PatBar} : MutCall("RemoveCall", m, "", RegFuncs)
  \/ \E m \in {PatFoo, PatBar} : MutCall("RemoveChan", m, "", RegChans)
  \/ MutReturn

SpecReg == InitEmpty /\ [][NextReg]_vars

\* dispatch under any small registry: rows in date order, none from me
DispFuncs == {[Match |-> m, to |-> "h1"] : m \in {PatAny, PatPing}}
DispChans == {[Match |-> m, to |-> q] : m \in {PatAny, PatPing}, q \in Sinks}

SeqsUpTo(S, n) == UNION {[1 .. k -> S] : k \in 0 .. n}

NextDisp ==
  \/ \E t \in {TxtPing, TxtPingx} : AppendRow(Len(rows) + 1, FALSE, t, DispRows)
  \/ PollTickFires
  \/ PollTick(TRUE)
  \/ QueryStep(FALSE)
  \/ HandOff
  \/ DispRecv
  \/ MesgChansLock
  \/ MesgChansStep
  \/ \E q \in Sinks : ConsumerRead(q)

InitDisp ==
  /\ InitOut
  /\ InitIn
  /\ mode = "poll"
  /\ binds \in [Funcs : SeqsUpTo(DispFuncs, 1), Chans : SeqsUpTo(DispChans, DispBinds)]

SpecDisp == InitDisp /\ [][NextDisp]_vars

\* the scheduler runs every task that can take a step; nothing makes a consumer
\* read its channel
DispFairness ==
  /\ WF_vars(PollTick(TRUE))
  /\ WF_vars(QueryStep(FALSE))
  /\ WF_vars(HandOff)
  /\ WF_vars(DispRecv)
  /\ WF_vars(MesgChansLock)
  /\ WF_vars(MesgChansStep)

FairSpecDisp == SpecDisp /\ DispFairness

\* dispatch with two handler bindings and two channel bindings, malformed
\* patterns among them, in any order
FanFuncs == {[Match |-> PatBad, to |-> "h1"], [Match |-> PatAny, to |-> "h1"],
             [Match |-> PatAny, to |-> "h2"]}
FanChans == {[Match |-> PatBad, to |-> "q1"], [Match |-> PatAny, to |-> "q1"],
             [Match |-> PatAny, to |-> "q2"]}

InitFan ==
  /\ InitOut
  /\ InitIn
  /\ mode = "poll"
  /\ binds \in [Funcs : [1 .. FanBinds -> FanFuncs], Chans : [1 .. FanBinds -> FanChans]]

NextFan ==
  \/ AppendRow(Len(rows) + 1, FALSE, TxtPing, DispRows)
  \/ PollTickFires
  \/ PollTick(TRUE)
  \/ QueryStep(FALSE)
  \/ HandOff
  \/ DispRecv
  \/ MesgChansLock
  \/ MesgChansStep
  \/ \E q \in Sinks : ConsumerRead(q)

SpecFan == InitFan /\ [][NextFan]_vars

\* the registry changes while events are dispatched.  One task of the
\* application both reads the bound channels and calls the registry methods:
\* while a call of its is in progress it reads nothing
ReaderRead(q) ==
  /\ mut = NoCall
  /\ ConsumerRead(q)

InitMut ==
  /\ InitOut
  /\ InitIn
  /\ mode = "poll"
  /\ binds = [Funcs |-> <<[Match |-> PatAny, to |-> "h1"]>>,
              Chans |-> <<[Match |-> PatAny, to |-> "q1"]>>]

NextMut ==
  \/ AppendRow(Len(rows) + 1, FALSE, TxtPing, DispRows)
  \/ PollTickFires
  \/ PollTick(TRUE)
  \/ QueryStep(FALSE)
  \/ HandOff
  \/ DispRecv
  \/ MesgChansLock
  \/ MesgChansStep
  \/ \E q \in Sinks : ReaderRead(q)
  \/ MutCall("IncomingCall", PatAny, "h2", MutBinds)
  \/ MutCall("IncomingChan", PatAny, "q2", MutBinds)
  \/ MutCall("RemoveCall", PatAny, "", MutBinds)
  \/ MutCall("RemoveChan", PatAny, "", MutBinds)
  \/ MutReturn

\* the scheduler runs every task that can take a step: the watcher, the
\* dispatcher, the registry call once it can have the lock, and the reader
\* whenever it is not inside a registry call
MutFairness ==
  /\ WF_vars(PollTick(TRUE))
  /\ WF_vars(QueryStep(FALSE))
  /\ WF_vars(HandOff)
  /\ WF_vars(DispRecv)
  /\ WF_vars(MesgChansLock)
  /\ WF_vars(MesgChansStep)
  /\ WF_vars(MutReturn)
  /\ WF_vars(\E q \in Sinks : ReaderRead(q))

FairSpecMut == InitMut /\ [][NextMut]_vars /\ MutFairness

\* the notification watcher with its debounce: rows in date order, none from
\* me, the database always opens, the query never fails, nothing is bound
NextWatch ==
  \/ AppendRow(Len(rows) + 1, FALSE, TxtPing, MaxRows)
  \/ IntervalPasses
  \/ WatchEvent(TRUE)
  \/ QueryStep(FALSE)
  \/ HandOff
  \/ DispRecv
  \/ MesgChansLock
  \/ MesgChansStep

\* time passes and the scheduler runs every task that can take a step;
\* nothing makes the writer of the table write again
WatchFairness ==
  /\ WF_vars(IntervalPasses)
  /\ WF_vars(WatchEvent(TRUE))
  /\ WF_vars(QueryStep(FALSE))
  /\ WF_vars(HandOff)
  /\ WF_vars(DispRecv)
  /\ WF_vars(MesgChansLock)
  /\ WF_vars(MesgChansStep)

FairSpecWatch == InitEmpty /\ [][NextWatch]_vars /\ WatchFairness

\* shutdown: two rows at most, the bindings of InitBound, either watcher
NextStop ==
  \/ AppendRow(Len(rows) + 1, FALSE, TxtPing, DispRows)
  \/ Pipeline
  \/ Shutdown

\* the scheduler runs every task that can take a step, and a select whose stop
\* case is ready again and again takes it in the end
StopFairness ==
  /\ WF_vars(\E err \in BOOLEAN : QueryStep(err))
  /\ WF_vars(HandOff)
  /\ WF_vars(DispRecv)
  /\ WF_vars(MesgChansLock)
  /\ WF_vars(MesgChansStep)
  /\ SF_vars(WatcherStop)
  /\ SF_vars(DispStop)
  /\ SF_vars(SenderStop)

FairSpecStop == InitBound /\ [][NextStop]_vars /\ StopFairness

(***************************************************************************)
(* Helpers of the properties.                                              *)
(***************************************************************************)
Count(log, x) == Cardinality({j \in 1 .. Len(log) : log[j] = x})

\* k failures, each followed by the retry delay, then one success
RECURSIVE FailThenOk(_)
FailThenOk(k) == IF k = 0 THEN <<"ok">> ELSE <<"fail", "sleep">> \o FailThenOk(k - 1)

\* n failures with a retry delay between them and none after the last
RECURSIVE AllFail(_)
AllFail(n) == IF n = 1 THEN <<"fail">> ELSE <<"fail", "sleep">> \o AllFail(n - 1)

IsPrefix(s, t) == Len(s) <= Len(t) /\ \A j \in 1 .. Len(s) : s[j] = t[j]

NoDuplicates(s) == \A j, k \in 1 .. Len(s) : s[j] = s[k] => j = k

Increasing(s) == \A j, k \in 1 .. Len(s) : j < k => s[j] < s[k]

MaxOf(S) == CHOOSE x \in S : \A y \in S : y <= x

(***************************************************************************)
(* C1: the events handed to the dispatcher are in the order of the rows    *)
(* (ascending rowid), no row twice, and when no check cycle is in progress *)
(* the cursor is the largest rowid read so far.                            *)
(***************************************************************************)
C1_OrderedExactlyOnce ==
  /\ Increasing(handed)
  /\ wpc = "wait" => currentID = MaxOf({InitialID} \cup {handed[j] : j \in 1 .. Len(handed)})

(***************************************************************************)
(* C2: no step makes the cursor smaller.                                   *)
(***************************************************************************)
C2_CursorMonotonic == [][currentID' >= currentID]_vars

(***************************************************************************)
(* C3: a RunAppleScript call with retry bound N >= 1 whose command failed  *)
(* on its first k < N attempts and then succeeded returns an empty error   *)
(* set, has run the command exactly k+1 times and has slept exactly k      *)
(* retry delays, one after each failure.                                   *)
(***************************************************************************)
C3_SuccessAfterFailures ==
  \A c \in Callers :
    LET f == ras[c]
        k == Count(f.log, "fail") IN
    (f.pc = "ret" /\ f.retry >= 1 /\ Count(f.log, "ok") > 0)
      => /\ k < f.retry
         /\ f.ret = <<>>
         /\ f.log = FailThenOk(k)
         /\ Count(f.log, "ok") = 1
         /\ Count(f.log, "sleep") = k

\* N = 3, k = 2: two failures, two delays, then the success and no error
C3_Witness ==
  \E c \in Callers :
    /\ ras[c].pc = "ret" /\ ras[c].retry = 3
    /\ ras[c].log = <<"fail", "sleep", "fail", "sleep", "ok">>
    /\ ras[c].ret = <<>>

(***************************************************************************)
(* C4: a RunAppleScript call with retry bound N >= 1 whose command always  *)
(* failed has run it exactly N times, returns exactly N errors in attempt  *)
(* order, has slept N-1 retry delays, none after the last attempt, and     *)
(* has returned.                                                           *)
(***************************************************************************)
C4_AllAttemptsFail ==
  \A c \in Callers :
    LET f == ras[c] IN
    (f.pc = "ret" /\ f.retry >= 1 /\ Count(f.log, "ok") = 0)
      => /\ Count(f.log, "fail") = f.retry
         /\ f.ret = [j \in 1 .. f.retry |-> j]
         /\ Count(f.log, "sleep") = f.retry - 1
         /\ f.log = AllFail(f.retry)

\* N = 2: two entries, one delay
C4_Witness ==
  \E c \in Callers :
    /\ ras[c].pc = "ret" /\ ras[c].retry = 2
    /\ ras[c].log = <<"fail", "sleep", "fail">>
    /\ ras[c].ret = <<1, 2>>

(***************************************************************************)
(* C5: a handled tick starts ClearMessages only when the option is enabled *)
(* and a request was dequeued since the previous handled tick (as claimed: *)
(* also for the first tick after startup).                                 *)
(***************************************************************************)
TickHandled == spc = "select" /\ tickReady /\ ~tickReady'

C5_ClearOnlyAfterSend ==
  [][(TickHandled /\ spc' = "clear") => (clearMsgs /\ sinceTick)]_vars

(***************************************************************************)
(* C5 as amended: a handled tick starts ClearMessages only when the option *)
(* is enabled and either a request was dequeued since the previous handled *)
(* tick or it is the first tick since startup; the first tick clears when  *)
(* the option is enabled, also with no send before it.                     *)
(***************************************************************************)
C5_ClearAfterSendOrFirstTick ==
  [][TickHandled =>
       /\ (spc' = "clear") => (clearMsgs /\ (sinceTick \/ ~ticked))
       /\ (clearMsgs /\ ~ticked) => (spc' = "clear")]_vars

\* ClearMessages runs on the first tick although no request was ever dequeued
C5_Witness == spc = "clear" /\ consumed = <<>> /\ ras["sender"].pc = "cmd"

(***************************************************************************)
(* C7: a Send call in progress can always complete at once: the queue has  *)
(* room, or else the Sender is at its select and takes a request.          *)
(***************************************************************************)
C7_SendNeverBlocks ==
  \A p \in Producers : prod[p] # NoMsg => (CanSend \/ spc = "select")

Survivors(list, p) == SelectSeq(list, LAMBDA b : b.Match # p)

Occurrences(list, p) == Cardinality({j \in 1 .. Len(list) : list[j].Match = p})

C6_RemoveAllMatching ==
  [][(mut.op \in {"RemoveCall", "RemoveChan"} /\ mut' = NoCall) =>
       IF mut.op = "RemoveCall"
         THEN /\ binds'.Funcs = Survivors(binds.Funcs, mut.Match)
              /\ binds'.Chans = binds.Chans
              /\ mret' = Occurrences(binds.Funcs, mut.Match)
         ELSE /\ binds'.Chans = Survivors(binds.Chans, mut.Match)
              /\ binds'.Funcs = binds.Funcs
              /\ mret' = Occurrences(binds.Chans, mut.Match)]_vars

\* RemoveCall("foo") has returned 3 and the one "bar" binding is what remains
C6_Witness ==
  /\ mut = NoCall
  /\ mret = 3
  /\ binds.Funcs = <<[Match |-> PatBar, to |-> "h1"]>>

(***************************************************************************)
(* C9: once the shutdown signal is raised, the watcher, the dispatcher     *)
(* loop and the Sender loop all terminate in the end.                      *)
(***************************************************************************)
AllStopped == wpc = "done" /\ dpc = "done" /\ spc = "done"

C9_ShutdownTerminates == stopIn ~> AllStopped

(***************************************************************************)
(* C10: every event handed to the dispatcher for which a handler binding   *)
(* matches has its handlers fired in the end, whether or not the bound     *)
(* channels are read.                                                      *)
(***************************************************************************)
EventIds == (InitialID + 1) .. (InitialID + DispRows)

WasHanded(id) == \E j \in 1 .. Len(handed) : handed[j] = id

EventOf(id) == [RowID |-> id, Text |-> TrimSpace(rows[id - InitialID].text)]

HandlerMatches(id) ==
  \E j \in 1 .. Len(binds.Funcs) : BindMatches(binds.Funcs[j], EventOf(id))

FiredFor(id) == \E j \in 1 .. Len(fired) : fired[j].ev = id

C10_HandlersNotDelayed ==
  \A id \in EventIds : (WasHanded(id) /\ HandlerMatches(id)) ~> FiredFor(id)

(***************************************************************************)
(* C10 as amended: a channel that is not read delays the handlers of later *)
(* events too: a handler is fired for an event only when every event       *)
(* handed to the dispatcher before it has been delivered to every channel  *)
(* binding that matches it.                                                *)
(***************************************************************************)
DeliveredTo(q, id) == \E j \in 1 .. Len(delivered) : delivered[j] = [to |-> q, ev |-> id]

C10_HandlersWaitForQueues ==
  \A f \in 1 .. Len(fired), a, b \in 1 .. Len(handed) :
    (a < b /\ handed[b] = fired[f].ev) =>
      \A c \in 1 .. Len(binds.Chans) :
        BindMatches(binds.Chans[c], EventOf(handed[a]))
          => DeliveredTo(binds.Chans[c].to, handed[a])

\* the dispatcher is blocked on a full channel with the first event, and the
\* second event, which a handler binding matches, waits in m.inChan unfired
C10_Witness ==
  /\ dpc = "chans"
  /\ NextMatch(binds.Chans, di, dmsg) # 0
  /\ Len(sink[binds.Chans[NextMatch(binds.Chans, di, dmsg)].to]) = SinkCap
  /\ inChan # <<>>
  /\ HandlerMatches(Head(inChan).RowID)
  /\ ~FiredFor(Head(inChan).RowID)

(***************************************************************************)
(* C13: when sendiMessage has returned, the completion callback of the     *)
(* request, if it has one, is spawned once with the id and text of the     *)
(* request and the errors of its own RunAppleScript call (none when the    *)
(* last attempt succeeded, one per attempt when all failed), and at no     *)
(* other step; no request gets two callbacks; the Sender does not wait for *)
(* the callback and, failed request or not, goes on to its select.         *)
(***************************************************************************)
SendFinished == spc \in {"send", "textSleep"} /\ spc' = "loopSleep"

Succeeded(f) == f.log # <<>> /\ f.log[Len(f.log)] = "ok"

C13_CallbackOncePerRequest ==
  [][/\ SendFinished =>
          /\ callbacks' = IF smsg.call
                            THEN Append(callbacks, [id |-> smsg.id, text |-> smsg.text,
                                                    errs |-> ras["sender"].ret])
                            ELSE callbacks
          /\ ras["sender"].ret = IF Succeeded(ras["sender"]) THEN <<>>
                                 ELSE [j \in 1 .. SendRetry |-> j]
     /\ ~SendFinished => callbacks' = callbacks
     /\ NoDuplicates([j \in 1 .. Len(callbacks') |-> callbacks'[j].id])
     /\ spc = "loopSleep" => spc' \in {"loopSleep", "select"}]_vars

\* the first request failed three times and its callback got the three errors;
\* the Sender went on, the second request succeeded and its callback got none
C13_Witness ==
  /\ Len(callbacks) = 2
  /\ callbacks[1].errs = <<1, 2, 3>>
  /\ callbacks[2].errs = <<>>
  /\ callbacks[1].id # callbacks[2].id
  /\ spc = "select"

(***************************************************************************)
(* C17: the Sender sleeps 300ms before its next dequeue after a request    *)
(* sent as the plain-text variant and does not sleep after a request sent  *)
(* as the file variant (as claimed).                                       *)
(***************************************************************************)
IterationEnds == spc = "loopSleep" /\ spc' = "select"

C17_DelayAfterTextOnly ==
  [][IterationEnds =>
       IF FileVariant(smsg) THEN sleeps' = <<>> ELSE sleeps' # <<>>]_vars

(***************************************************************************)
(* C17 as amended: the loop sleeps 300ms after every request, whatever its *)
(* variant and outcome; sendiMessage sleeps 300ms more, before that, when  *)
(* the send succeeded and the request's File flag is not set.  So a file   *)
(* send is followed by one delay, a successful text send by two, and a     *)
(* request with File set whose path does not exist, which goes out as the  *)
(* text variant, by one.                                                   *)
(***************************************************************************)
C17_DelayAfterEveryRequest ==
  [][IterationEnds =>
       sleeps' = IF Succeeded(ras["sender"]) /\ ~smsg.file
                   THEN <<"text300", "loop300">>
                   ELSE <<"loop300">>]_vars

\* a request with File set and a path that does not exist went out as the text
\* variant and succeeded: the loop's delay followed it, sendiMessage's did not
C17_Witness ==
  /\ spc = "loopSleep"
  /\ smsg.file /\ ~StatOK(smsg.text) /\ ~FileVariant(smsg)
  /\ Succeeded(ras["sender"])
  /\ sleeps = <<>>

(***************************************************************************)
(* C19: a RunAppleScript call that has returned an empty error set has run *)
(* the command at least once, and its last run succeeded, whatever the     *)
(* retry bound.                                                            *)
(***************************************************************************)
C19_SuccessMeansRan ==
  \A c \in Callers :
    (ras[c].pc = "ret" /\ ras[c].ret = <<>>) => Succeeded(ras[c])

(***************************************************************************)
(* C14: a query error that ends a check cycle leaves the cursor where the  *)
(* last row read put it; the row whose read failed and the rows the query  *)
(* had yet to return are all past the cursor, so the next cycle selects    *)
(* them, and no row already handed over is past the cursor.                *)
(***************************************************************************)
ErrorEndsCycle == wpc = "step" /\ wpc' = "wait" /\ qres # <<>>

C14_ErrorRetriesRest ==
  [][ErrorEndsCycle =>
       /\ currentID' = currentID
       /\ \A j \in 1 .. Len(qres) : qres[j].id > currentID'
       /\ \A j \in 1 .. Len(handed) : handed[j] <= currentID']_vars

(***************************************************************************)
(* C11: an event whose dispatch is over was given exactly once to every    *)
(* binding whose pattern matches its text and to no other binding, whatever*)
(* the registry holds: ".*" matches every text, "^ping$" matches "ping"    *)
(* and not "pingx"; while dispatch is in progress no binding has had the   *)
(* event more than once.                                                   *)
(***************************************************************************)
ExpectMatch(p, t) == p = PatAny \/ (p = PatPing /\ t = TxtPing)

TextOf(id) == TrimSpace(rows[id - InitialID].text)

Dispatched(id) ==
  /\ WasHanded(id)
  /\ dmsg.RowID # id
  /\ \A j \in 1 .. Len(inChan) : inChan[j].RowID # id

TimesFired(h, id) ==
  Cardinality({j \in 1 .. Len(fired) : fired[j] = [fn |-> h, ev |-> id]})

TimesDelivered(q, id) ==
  Cardinality({j \in 1 .. Len(delivered) : delivered[j] = [to |-> q, ev |-> id]})

MatchingFuncs(h, id) ==
  Cardinality({j \in 1 .. Len(binds.Funcs) :
                 binds.Funcs[j].to = h /\ ExpectMatch(binds.Funcs[j].Match, TextOf(id))})

MatchingChans(q, id) ==
  Cardinality({j \in 1 .. Len(binds.Chans) :
                 binds.Chans[j].to = q /\ ExpectMatch(binds.Chans[j].Match, TextOf(id))})

C11_OncePerMatchingBinding ==
  \A id \in EventIds :
    id - InitialID <= Len(rows) =>
      /\ \A h \in Handlers : TimesFired(h, id) <= MatchingFuncs(h, id)
      /\ \A q \in Sinks : TimesDelivered(q, id) <= MatchingChans(q, id)
      /\ Dispatched(id) =>
           /\ \A h \in Handlers : TimesFired(h, id) = MatchingFuncs(h, id)
           /\ \A q \in Sinks : TimesDelivered(q, id) = MatchingChans(q, id)

\* "ping" then "pingx" were dispatched to a ".*" handler and a "^ping$" channel:
\* the handler was fired for both, the channel got "ping" only
C11_Witness ==
  /\ binds = [Funcs |-> <<[Match |-> PatAny, to |-> "h1"]>>,
              Chans |-> <<[Match |-> PatPing, to |-> "q1"]>>]
  /\ Len(rows) = 2 /\ rows[1].text = TxtPing /\ rows[2].text = TxtPingx
  /\ Dispatched(InitialID + 1) /\ Dispatched(InitialID + 2)
  /\ fired = <<[fn |-> "h1", ev |-> InitialID + 1], [fn |-> "h1", ev |-> InitialID + 2]>>
  /\ delivered = <<[to |-> "q1", ev |-> InitialID + 1]>>

(***************************************************************************)
(* C12: a binding whose pattern does not compile never gets an event, and  *)
(* every event whose dispatch is over was given once to each binding with  *)
(* a valid matching pattern, those after the malformed one included, for   *)
(* the first event and for the later ones.                                 *)
(***************************************************************************)
ValidFuncs(h) ==
  Cardinality({j \in 1 .. Len(binds.Funcs) :
                 binds.Funcs[j].to = h /\ binds.Funcs[j].Match # PatBad})

ValidChans(q) ==
  Cardinality({j \in 1 .. Len(binds.Chans) :
                 binds.Chans[j].to = q /\ binds.Chans[j].Match # PatBad})

C12_MalformedIsNoMatch ==
  \A id \in EventIds :
    /\ \A h \in Handlers : TimesFired(h, id) <= ValidFuncs(h)
    /\ \A q \in Sinks : TimesDelivered(q, id) <= ValidChans(q)
    /\ Dispatched(id) =>
         /\ \A h \in Handlers : TimesFired(h, id) = ValidFuncs(h)
         /\ \A q \in Sinks : TimesDelivered(q, id) = ValidChans(q)

\* a malformed binding comes first in both collections: both events went to the
\* valid bindings behind it and to nothing else
C12_Witness ==
  /\ binds = [Funcs |-> <<[Match |-> PatBad, to |-> "h1"], [Match |-> PatAny, to |-> "h2"]>>,
              Chans |-> <<[Match |-> PatBad, to |-> "q1"], [Match |-> PatAny, to |-> "q2"]>>]
  /\ Dispatched(InitialID + 1) /\ Dispatched(InitialID + 2)
  /\ fired = <<[fn |-> "h2", ev |-> InitialID + 1], [fn |-> "h2", ev |-> InitialID + 2]>>
  /\ delivered = <<[to |-> "q2", ev |-> InitialID + 1], [to |-> "q2", ev |-> InitialID + 2]>>

(***************************************************************************)
(* C15: once an event has left m.inChan, the handlers fired for it are the *)
(* matching handler bindings in insertion order, all of them, before any   *)
(* channel gets it; the channels that got it so far are the first matching *)
(* channel bindings in insertion order.                                    *)
(***************************************************************************)
Matching(list) == SelectSeq(list, LAMBDA b : b.Match = PatAny)

Targets(list) == [j \in 1 .. Len(list) |-> list[j].to]

FiredSeq(id) == SelectSeq(fired, LAMBDA f : f.ev = id)

DeliveredSeq(id) == SelectSeq(delivered, LAMBDA d : d.ev = id)

C15_HandlersBeforeQueues ==
  \A id \in EventIds :
    /\ (\E j \in 1 .. Len(inChan) : inChan[j].RowID = id) \/ ~WasHanded(id)
         => FiredSeq(id) = <<>> /\ DeliveredSeq(id) = <<>>
    /\ (WasHanded(id) /\ \A j \in 1 .. Len(inChan) : inChan[j].RowID # id)
         => [j \in 1 .. Len(FiredSeq(id)) |-> FiredSeq(id)[j].fn]
              = Targets(Matching(binds.Funcs))
    /\ IsPrefix([j \in 1 .. Len(DeliveredSeq(id)) |-> DeliveredSeq(id)[j].to],
                Targets(Matching(binds.Chans)))

\* two matching handlers and two matching channels: for the first event the
\* handlers were fired in their order, h2 then h1, and only then q2 got it;
\* q1, the second channel binding, has yet to get it
C15_Witness ==
  /\ binds = [Funcs |-> <<[Match |-> PatAny, to |-> "h2"], [Match |-> PatAny, to |-> "h1"]>>,
              Chans |-> <<[Match |-> PatAny, to |-> "q2"], [Match |-> PatAny, to |-> "q1"]>>]
  /\ fired = <<[fn |-> "h2", ev |-> InitialID + 1], [fn |-> "h1", ev |-> InitialID + 1]>>
  /\ delivered = <<[to |-> "q2", ev |-> InitialID + 1]>>
  /\ dpc = "chans"

(***************************************************************************)
(* C16: m.binds changes at no step between the start of callBacks and the  *)
(* end of mesgChans for one event.                                         *)
(***************************************************************************)
C16_RegistryFixedDuringFanOut ==
  [][binds' # binds => dpc \notin {"between", "chans"}]_vars

(***************************************************************************)
(* C18: in notification mode, with no shutdown, every row appended to the  *)
(* table is handed to the dispatcher and dispatched in the end.            *)
(***************************************************************************)
RowIds == (InitialID + 1) .. (InitialID + MaxRows)

C18_EveryRowIngested ==
  \A id \in RowIds : (id - InitialID <= Len(rows)) ~> Dispatched(id)

(***************************************************************************)
(* C20: every call of a registry method returns in the end.                *)
(***************************************************************************)
C20_RegistryCallsReturn == (mut # NoCall) ~> (mut = NoCall)

====
